---- MODULE Spec2Model ----
(***************************************************************************)
(* k8s-memguardian: the reconciliation loop of memguardian.py.             *)
(*                                                                         *)
(* A quantity string is a sequence of one-character strings, so that the   *)
(* regular expression of metric_to_bytes can be modelled by what it        *)
(* matches.  Python's None is the integer None, an exception raised by a   *)
(* function is the integer Raised; every ordinary result is >= 0.          *)
(***************************************************************************)
EXTENDS Integers, Sequences, FiniteSets, TLC

VARIABLES
    pods,                \* what v1.list_pod_for_all_namespaces() returns
    metrics,             \* what the metrics.k8s.io listing returns
    daemon,              \* args.daemon
    pc,                  \* position of main(): "start", "loop", "finished", "sleep", "exit"
    cycles,              \* number of calls of MemGuardian.run so far
    limited_containers,  \* run(): the dict fullname -> Container
    updated_controllers, \* run(): the list of controller strings
    pos,                 \* run(): index of the usage entry the loops are at
    error,               \* the exception that left run(), "" when none
    status_reads,        \* this cycle's read_namespaced_*_status requests and results
    deletions,           \* this cycle's v1.delete_namespaced_pod requests
    deleted_total,       \* prometheus counter memguardian_deleted_pod_total
    limits_gauge,        \* prometheus gauge memguardian_config_limits
    exceptions_count,    \* prometheus counter memguardian_error
    quantity,            \* metric_to_bytes called on its own: the argument
    returned             \* and what the call gave, None before the call

vars == <<pods, metrics, daemon, pc, cycles, limited_containers,
          updated_controllers, pos, error, status_reads, deletions,
          deleted_total, limits_gauge, exceptions_count, quantity, returned>>

\* ---------------------------------------------------------------- values

None == -1
Raised == -2

MaxCycles == 2

\* ---------------------------------------------------------------- metric_to_bytes

\* the characters \d matches, with their values
Digits ==
    ("0" :> 0) @@ ("1" :> 1) @@ ("2" :> 2) @@ ("3" :> 3) @@ ("4" :> 4) @@
    ("5" :> 5) @@ ("6" :> 6) @@ ("7" :> 7) @@ ("8" :> 8) @@ ("9" :> 9)

IsDigit(c) == c \in DOMAIN Digits

DigitValue(c) == Digits[c]

\* the letters of the model's strings, with their lower case
Letters ==
    ("K" :> "k") @@ ("M" :> "m") @@ ("G" :> "g") @@ ("T" :> "t") @@
    ("P" :> "p") @@ ("E" :> "e") @@ ("I" :> "i") @@ ("B" :> "b") @@
    ("k" :> "k") @@ ("m" :> "m") @@ ("g" :> "g") @@ ("t" :> "t") @@
    ("p" :> "p") @@ ("e" :> "e") @@ ("i" :> "i") @@ ("b" :> "b")

\* \w of the regular expression: letters, digits and the underscore
IsWord(c) == IsDigit(c) \/ c = "_" \/ c \in DOMAIN Letters

\* str.lower() on one character
LowerChar(c) == IF c \in DOMAIN Letters THEN Letters[c] ELSE c

Lower(s) == [k \in 1..Len(s) |-> LowerChar(s[k])]

\* a local variable: value is computed once, then Body reads it
With(value, Body(_)) == CHOOSE r \in { Body(v) : v \in {value} } : TRUE

\* the length of the longest run of digits of s that starts at index from
\* (a greedy \d* of the regular expression)
RECURSIVE DigitRun(_, _)
DigitRun(s, from) ==
    IF from <= Len(s) /\ IsDigit(s[from])
    THEN 1 + DigitRun(s, from + 1)
    ELSE 0

\* the same for \w*
RECURSIVE WordRun(_, _)
WordRun(s, from) ==
    IF from <= Len(s) /\ IsWord(s[from])
    THEN 1 + WordRun(s, from + 1)
    ELSE 0

\* re.match("(?P<amount>\d+\.?\d*)(?P<units>\w*)", s): None when s does
\* not start with a digit, else the two groups (the match is anchored at
\* the start only: what follows the units is ignored)
Match(s) ==
    With(DigitRun(s, 1), LAMBDA n1 :
    With(IF n1 + 1 <= Len(s) /\ s[n1 + 1] = "." THEN 1 ELSE 0, LAMBDA dot :
    With(DigitRun(s, n1 + dot + 1), LAMBDA n2 :
    With(WordRun(s, n1 + dot + n2 + 1), LAMBDA nu :
        IF n1 = 0
        THEN [matched |-> FALSE, amount |-> <<>>, units |-> <<>>]
        ELSE [matched |-> TRUE,
              amount  |-> SubSeq(s, 1, n1 + dot + n2),
              units   |-> SubSeq(s, n1 + dot + n2 + 1, n1 + dot + n2 + nu)]))))

\* int(text) on a group the regular expression matched: ValueError when
\* the text holds a '.', else the decimal value
RECURSIVE DecimalValue(_)
DecimalValue(t) ==
    IF t = <<>> THEN 0
    ELSE 10 * DecimalValue(SubSeq(t, 1, Len(t) - 1)) + DigitValue(t[Len(t)])

PyInt(t) ==
    IF \E k \in 1..Len(t) : t[k] = "." THEN Raised ELSE DecimalValue(t)

\* multipliers.get(units, 0)
multipliers(u) ==
    CASE u = <<>>         -> 1
      [] u = <<"k">>      -> 1000
      [] u = <<"m">>      -> 1000000
      [] u = <<"g">>      -> 1000000000
      [] u = <<"t">>      -> 1000000000 * 1000
      [] u = <<"p">>      -> 1000000000 * 1000000
      [] u = <<"e">>      -> 1000000000 * 1000000000
      [] u = <<"k", "i">> -> 1024
      [] u = <<"m", "i">> -> 1024 * 1024
      [] u = <<"g", "i">> -> 1024 * 1024 * 1024
      [] u = <<"t", "i">> -> 1024 * 1024 * 1024 * 1024
      [] u = <<"p", "i">> -> 1024 * 1024 * 1024 * 1024 * 1024
      [] u = <<"e", "i">> -> 1024 * 1024 * 1024 * 1024 * 1024 * 1024
      [] OTHER            -> 0

metric_to_bytes(amount) ==
    With(Match(amount), LAMBDA m :
        IF ~m.matched THEN Raised                  \* m is None: m.group raises
        ELSE With(PyInt(m.amount), LAMBDA n :
                IF n = Raised THEN Raised
                ELSE n * multipliers(Lower(m.units))))

\* ---------------------------------------------------------------- Container

annotation_string == "memguardian.limit.memory"

\* Container.gen_key: f'{namespace}.{podname}.{name}'
gen_key(namespace, podname, name) == namespace \o "." \o podname \o "." \o name

\* Container(pod_metadata, container_spec)
Container(pod_metadata, container_spec) ==
    [pod_metadata   |-> pod_metadata,
     container_spec |-> container_spec,
     fullname       |-> gen_key(pod_metadata.namespace, pod_metadata.name,
                                container_spec.name)]

\* Container.controller: the first owner whose controller flag is set.
\* The result is the owner's index in owner_references, 0 for Python's None
\* (the loop ends without returning).
controller_index(container) ==
    LET owners == container.pod_metadata.owner_references
        flagged == {k \in 1..Len(owners) : owners[k].controller}
    IN  IF flagged = {} THEN 0
        ELSE CHOOSE k \in flagged : \A l \in flagged : k <= l

controller(container) ==
    container.pod_metadata.owner_references[controller_index(container)]

\* Container.controller_string: f'{controller.kind}/{controller.name}'; the
\* attribute access raises when controller is None, which the callers below
\* test with controller_index before they use this value
controller_string(container) ==
    controller(container).kind \o "/" \o controller(container).name

\* memory_limit with the two keys looked up in the other order
memory_limit_base_first(container) ==
    LET annotations == container.pod_metadata.annotations
        scoped == annotation_string \o "/" \o container.container_spec.name
    IN  IF annotation_string \in DOMAIN annotations
        THEN metric_to_bytes(annotations[annotation_string])
        ELSE IF scoped \in DOMAIN annotations
        THEN metric_to_bytes(annotations[scoped])
        ELSE None

\* Container.memory_limit: the first present key of (base/name, base)
memory_limit(container) ==
    LET annotations == container.pod_metadata.annotations
        scoped == annotation_string \o "/" \o container.container_spec.name
    IN  IF scoped \in DOMAIN annotations
        THEN metric_to_bytes(annotations[scoped])
        ELSE IF annotation_string \in DOMAIN annotations
        THEN metric_to_bytes(annotations[annotation_string])
        ELSE None

\* ---------------------------------------------------------------- KubernetesClient

\* kind.lower() for the kinds of the model
KindLower(kind) ==
    CASE kind = "Deployment"  -> "deployment"
      [] kind = "StatefulSet" -> "statefulset"
      [] kind = "ReplicaSet"  -> "replicaset"
      [] kind = "DaemonSet"   -> "daemonset"
      [] OTHER                -> kind

\* the keys of the controllers table of read_namespaced_resource_status
SupportedKinds ==
    {"deployment", "statefulset", "replicationcontroller", "replicaset"}

\* fn is None: read_namespaced_resource_status returns None
StatusUnsupported(kind) == KindLower(kind) \notin SupportedKinds

\* labels(...).inc() of a prometheus counter: a label set starts at 0
\* a counter that goes up by two
IncTwice(counter, labels) ==
    IF labels \in DOMAIN counter
    THEN [counter EXCEPT ![labels] = @ + 2]
    ELSE counter @@ (labels :> 2)

Inc(counter, labels) ==
    IF labels \in DOMAIN counter
    THEN [counter EXCEPT ![labels] = @ + 1]
    ELSE counter @@ (labels :> 1)

\* ---------------------------------------------------------------- MemGuardian

\* x or d
PyOr(x, d) == IF x = None \/ x = 0 THEN d ELSE x

DefaultReplicas == 1000

\* the unready test with the comparison turned around
UnreadyReversed(status) ==
    PyOr(status.ready_replicas, 0) > PyOr(status.replicas, DefaultReplicas)

\* the unready test with an absent desired count read as 0
UnreadyNoSentinel(status) ==
    PyOr(status.ready_replicas, 0) < PyOr(status.replicas, 0)

\* delete_container: (status.ready_replicas or 0) < (status.replicas or 1000)
Unready(status) ==
    PyOr(status.ready_replicas, 0) < PyOr(status.replicas, DefaultReplicas)

\* the limit test with >= for >
OverLimitOrEqual(value, limit) == value >= limit

\* run: value > memory_limit
OverLimit(value, limit) == value > limit

\* the membership test left out
AlreadyUpdatedNever(cs, updated) == FALSE

\* run: container.controller_string in updated_controllers
AlreadyUpdated(cs, updated) == \E k \in 1..Len(updated) : updated[k] = cs

\* the Container objects of _limited_containers' two loops, in order,
\* before the test of their limit
RECURSIVE PodContainers(_, _)
PodContainers(pod, k) ==
    IF k > Len(pod.spec.containers) THEN <<>>
    ELSE <<Container(pod.metadata, pod.spec.containers[k])>>
         \o PodContainers(pod, k + 1)

RECURSIVE AllContainers(_, _)
AllContainers(podlist, k) ==
    IF k > Len(podlist) THEN <<>>
    ELSE PodContainers(podlist[k], 1) \o AllContainers(podlist, k + 1)

\* the test of the limit against None left out
HasLimitAlways(container) == TRUE

\* _limited_containers: not (limit is None)
HasLimit(container) == memory_limit(container) # None

\* what _limited_containers yields when no limit raises
Yielded(podlist) == SelectSeq(AllContainers(podlist, 1), HasLimit)

\* container.memory_limit raises inside the generator
LimitRaises(podlist) ==
    LET all == AllContainers(podlist, 1)
    IN  \E k \in 1..Len(all) : memory_limit(all[k]) = Raised

\* dict((x.fullname, x) for x in ...): a later item replaces an earlier one
\* of the same key
BuildDict(items) ==
    [key \in {items[k].fullname : k \in 1..Len(items)} |->
        items[CHOOSE k \in 1..Len(items) :
                /\ items[k].fullname = key
                /\ \A l \in 1..Len(items) : items[l].fullname = key => l <= k]]

\* the namespaced_limits Counter once the generator is exhausted
namespaced_limits(items) ==
    [ns \in {items[k].pod_metadata.namespace : k \in 1..Len(items)} |->
        Cardinality({k \in 1..Len(items) : items[k].pod_metadata.namespace = ns})]

\* limits_gauge.labels(namespace=namespace).set(limits) for every item of
\* the Counter: the other label sets keep their value
SetGauge(gauge, counts) ==
    [ns \in DOMAIN gauge \cup DOMAIN counts |->
        IF ns \in DOMAIN counts THEN counts[ns] ELSE gauge[ns]]

\* the (metric, container_metric) pairs of run's two loops, in order
RECURSIVE MetricEntries(_, _)
MetricEntries(metric, k) ==
    IF k > Len(metric.containers) THEN <<>>
    ELSE <<[metadata |-> metric.metadata, container_metric |-> metric.containers[k]]>>
         \o MetricEntries(metric, k + 1)

RECURSIVE Entries(_, _)
Entries(items, k) ==
    IF k > Len(items) THEN <<>>
    ELSE MetricEntries(items[k], 1) \o Entries(items, k + 1)

\* ---------------------------------------------------------------- inputs

EmptyMap == [k \in {} |-> 0]

\* annotation values of the model
Limit2Ki == <<"2", "K", "i">>
Limit1Ki == <<"1", "K", "i">>
LimitBad == <<"M", "i">>

BaseKey == annotation_string
C1Key == annotation_string \o "/" \o "c1"

\* the annotations the first pod of the model may carry
AnnotationChoices ==
    { EmptyMap,
      (BaseKey :> Limit2Ki),
      (BaseKey :> Limit2Ki) @@ (C1Key :> Limit1Ki),
      (BaseKey :> LimitBad) }

\* the annotations the second pod may carry
AnnotationChoices2 ==
    { (C1Key :> Limit1Ki),
      (BaseKey :> Limit2Ki) @@ (C1Key :> Limit1Ki) }

DeploymentApp == [kind |-> "Deployment", name |-> "app", controller |-> TRUE]
StatefulSetDb == [kind |-> "StatefulSet", name |-> "db", controller |-> TRUE]
DaemonSetAgent == [kind |-> "DaemonSet", name |-> "agent", controller |-> TRUE]
PlainOwner == [kind |-> "ReplicaSet", name |-> "old", controller |-> FALSE]

\* the owner references the first pod of the model may carry
OwnerChoices ==
    { <<>>, <<PlainOwner>>, <<DeploymentApp>>, <<DaemonSetAgent>> }

\* the owner references the second pod may carry
OwnerChoices2 ==
    { <<DeploymentApp>>, <<PlainOwner, StatefulSetDb>> }

Namespaces == {"a", "b"}

Pod(namespace, name, annotations, owners) ==
    [metadata |-> [namespace |-> namespace, name |-> name,
                   annotations |-> annotations, owner_references |-> owners],
     spec     |-> [containers |-> <<[name |-> "c1"], [name |-> "c2"]>>]]

\* the pod listings of the model: p1 in namespace a, p2 in either namespace
PodLists ==
    { <<Pod("a", "p1", a1, o1), Pod(n2, "p2", a2, o2)>> :
        a1 \in AnnotationChoices, o1 \in OwnerChoices, n2 \in Namespaces,
        a2 \in AnnotationChoices2, o2 \in OwnerChoices2 }

\* the usage strings a pod's metric may report for (c1, c2)
UsageChoices ==
    { << <<"3", "K", "i">>, <<"3", "K", "i">> >>,
      << <<"2", "0", "4", "8">>, <<"2", "0", "4", "8">> >>,
      << <<"M", "i">>, <<"3", "K", "i">> >> }

Metric(namespace, name, usage) ==
    [metadata   |-> [namespace |-> namespace, name |-> name],
     containers |-> <<[name |-> "c1", usage |-> [memory |-> usage[1]]],
                      [name |-> "c2", usage |-> [memory |-> usage[2]]]>>]

\* the usage snapshots for a pod listing: one item per pod, in either order
MetricLists(podlist) ==
    LET m(k, u) == Metric(podlist[k].metadata.namespace, podlist[k].metadata.name, u)
    IN  { <<m(1, u1), m(2, u2)>> : u1 \in UsageChoices, u2 \in UsageChoices }
        \cup { <<m(2, u2), m(1, u1)>> : u1 \in UsageChoices, u2 \in UsageChoices }

\* the pod listings of the daemon runs: p1 with or without a limit and a
\* controller, p2 always monitored, in either namespace
DaemonPodLists ==
    { <<Pod("a", "p1", a1, o1), Pod(n2, "p2", BaseKey :> Limit2Ki, <<DeploymentApp>>)>> :
        a1 \in {EmptyMap, (BaseKey :> Limit2Ki) @@ (C1Key :> Limit1Ki)},
        o1 \in {<<>>, <<DeploymentApp>>},
        n2 \in Namespaces }

\* what a cluster may have become by the next cycle: the second pod may
\* have been rescheduled into the other namespace
NextPodLists == [pl \in DaemonPodLists |-> {q \in DaemonPodLists : q[1] = pl[1]}]

\* their usage snapshots: every container at 3Ki, or every container at 2048
DaemonMetricLists(podlist) ==
    LET m(k, u) == Metric(podlist[k].metadata.namespace, podlist[k].metadata.name, u)
        over == << <<"3", "K", "i">>, <<"3", "K", "i">> >>
        even == << <<"2", "0", "4", "8">>, <<"2", "0", "4", "8">> >>
    IN  { <<m(1, u1), m(2, u2)>> : u1 \in {over, even}, u2 \in {over, even} }

\* the controller statuses the API may answer with
Statuses ==
    { [replicas |-> 3,    ready_replicas |-> 2],
      [replicas |-> 3,    ready_replicas |-> 3],
      [replicas |-> 3,    ready_replicas |-> None],
      [replicas |-> None, ready_replicas |-> 3],
      [replicas |-> None, ready_replicas |-> DefaultReplicas],
      [replicas |-> 0,    ready_replicas |-> 0] }

NoStatus == [replicas |-> None, ready_replicas |-> None]

\* ---------------------------------------------------------------- main and run

Init ==
    /\ pods \in PodLists
    /\ metrics \in MetricLists(pods)
    /\ daemon = FALSE
    /\ pc = "start"
    /\ cycles = 0
    /\ limited_containers = EmptyMap
    /\ updated_controllers = <<>>
    /\ pos = 1
    /\ error = ""
    /\ status_reads = <<>>
    /\ deletions = <<>>
    /\ deleted_total = EmptyMap
    /\ limits_gauge = EmptyMap
    /\ exceptions_count = 0
    /\ quantity = <<>>
    /\ returned = None

\* an exception leaves run(): count_exceptions counts it, main logs it
Abort(site) ==
    /\ pc' = "finished"
    /\ error' = site
    /\ exceptions_count' = exceptions_count + 1

\* main calls memguardian.run(); run's locals start afresh.  The first
\* cycle reads the cluster of the initial state, a later cycle of the
\* daemon reads whatever the cluster has become by then.
EnterRun ==
    /\ pc = "start"
    /\ cycles' = cycles + 1
    /\ updated_controllers' = <<>>
    /\ pos' = 1
    /\ status_reads' = <<>>
    /\ deletions' = <<>>
    /\ pods' \in IF cycles = 0 THEN {pods} ELSE NextPodLists[pods]
    /\ UNCHANGED <<daemon, deleted_total, quantity, returned>>

\* the usage snapshot of the cycle that starts
Snapshot ==
    metrics' \in IF cycles = 0 THEN {metrics} ELSE DaemonMetricLists(pods')

\* get_pods() fails: the API call raises
ListPodsFails ==
    /\ EnterRun
    /\ Abort("get_pods")
    /\ limited_containers' = EmptyMap
    /\ Snapshot
    /\ UNCHANGED limits_gauge

\* a limit annotation does not parse: the generator raises inside dict()
BuildIndexRaises ==
    /\ EnterRun
    /\ LimitRaises(pods')
    /\ Abort("memory_limit")
    /\ limited_containers' = EmptyMap
    /\ Snapshot
    /\ UNCHANGED limits_gauge

\* the index is built and the gauge set, then get_metrics() fails
ListMetricsFails ==
    /\ EnterRun
    /\ ~LimitRaises(pods')
    /\ \E items \in {Yielded(pods')} :
        /\ limited_containers' = BuildDict(items)
        /\ limits_gauge' = SetGauge(limits_gauge, namespaced_limits(items))
    /\ Abort("get_metrics")
    /\ Snapshot

\* the index is built, the gauge set and the usage snapshot fetched
BuildIndex ==
    /\ EnterRun
    /\ ~LimitRaises(pods')
    /\ \E items \in {Yielded(pods')} :
        /\ limited_containers' = BuildDict(items)
        /\ limits_gauge' = SetGauge(limits_gauge, namespaced_limits(items))
    /\ pc' = "loop"
    /\ error' = ""
    /\ Snapshot
    /\ UNCHANGED exceptions_count

\* the entry the two loops of run are at
AtEntry == pc = "loop" /\ pos <= Len(Entries(metrics, 1))
Entry == Entries(metrics, 1)[pos]
EntryValue == metric_to_bytes(Entry.container_metric.usage.memory)
EntryKey ==
    gen_key(Entry.metadata.namespace, Entry.metadata.name, Entry.container_metric.name)
EntryContainer == limited_containers[EntryKey]

\* the entry is a candidate: monitored and over its limit
Candidate ==
    /\ AtEntry
    /\ EntryValue # Raised
    /\ EntryKey \in DOMAIN limited_containers
    /\ OverLimit(EntryValue, memory_limit(EntryContainer))

\* the candidate reaches delete_container: it has a controller that is not
\* in updated_controllers
Submitted ==
    /\ Candidate
    /\ controller_index(EntryContainer) # 0
    /\ ~AlreadyUpdated(controller_string(EntryContainer), updated_controllers)

\* continue, or the end of the loop body
NextEntry ==
    /\ pos' = pos + 1
    /\ UNCHANGED <<pc, error, exceptions_count>>

StatusRead(result, status) ==
    [pos       |-> pos,
     name      |-> controller(EntryContainer).name,
     namespace |-> EntryContainer.pod_metadata.namespace,
     kind      |-> controller(EntryContainer).kind,
     result    |-> result,
     status    |-> status]

\* metric_to_bytes raises on the usage string
UsageRaises ==
    /\ AtEntry
    /\ EntryValue = Raised
    /\ Abort("metric_to_bytes")
    /\ UNCHANGED <<quantity, returned, pods, metrics, daemon, cycles, limited_containers,
                   updated_controllers, pos, status_reads, deletions,
                   deleted_total, limits_gauge>>

\* limited_containers.get(key) is None
NotLimited ==
    /\ AtEntry
    /\ EntryValue # Raised
    /\ EntryKey \notin DOMAIN limited_containers
    /\ NextEntry
    /\ UNCHANGED <<quantity, returned, pods, metrics, daemon, cycles, limited_containers,
                   updated_controllers, status_reads, deletions,
                   deleted_total, limits_gauge>>

\* value > memory_limit is false
WithinLimit ==
    /\ AtEntry
    /\ EntryValue # Raised
    /\ EntryKey \in DOMAIN limited_containers
    /\ ~OverLimit(EntryValue, memory_limit(EntryContainer))
    /\ NextEntry
    /\ UNCHANGED <<quantity, returned, pods, metrics, daemon, cycles, limited_containers,
                   updated_controllers, status_reads, deletions,
                   deleted_total, limits_gauge>>

\* container.controller_string with controller None: the attribute access
\* raises before delete_container is called
NoController ==
    /\ Candidate
    /\ controller_index(EntryContainer) = 0
    /\ Abort("controller_string")
    /\ UNCHANGED <<quantity, returned, pods, metrics, daemon, cycles, limited_containers,
                   updated_controllers, pos, status_reads, deletions,
                   deleted_total, limits_gauge>>

\* the controller has another pod removed this loop
SkipUpdated ==
    /\ Candidate
    /\ controller_index(EntryContainer) # 0
    /\ AlreadyUpdated(controller_string(EntryContainer), updated_controllers)
    /\ NextEntry
    /\ UNCHANGED <<quantity, returned, pods, metrics, daemon, cycles, limited_containers,
                   updated_controllers, status_reads, deletions,
                   deleted_total, limits_gauge>>

\* read_namespaced_resource_status returns None: controller.status raises
UnsupportedKind ==
    /\ Submitted
    /\ StatusUnsupported(controller(EntryContainer).kind)
    /\ status_reads' = Append(status_reads, StatusRead("none", NoStatus))
    /\ Abort("controller.status")
    /\ UNCHANGED <<quantity, returned, pods, metrics, daemon, cycles, limited_containers,
                   updated_controllers, pos, deletions, deleted_total,
                   limits_gauge>>

\* the status request fails (the controller is gone, the API is down)
StatusReadFails ==
    /\ Submitted
    /\ ~StatusUnsupported(controller(EntryContainer).kind)
    /\ status_reads' = Append(status_reads, StatusRead("raised", NoStatus))
    /\ Abort("read_status")
    /\ UNCHANGED <<quantity, returned, pods, metrics, daemon, cycles, limited_containers,
                   updated_controllers, pos, deletions, deleted_total,
                   limits_gauge>>

\* delete_container returns at the unready test; run appends the controller
DenyUnready ==
    /\ Submitted
    /\ ~StatusUnsupported(controller(EntryContainer).kind)
    /\ \E status \in Statuses :
        /\ Unready(status)
        /\ status_reads' = Append(status_reads, StatusRead("ok", status))
    /\ updated_controllers' =
            Append(updated_controllers, controller_string(EntryContainer))
    /\ NextEntry
    /\ UNCHANGED <<quantity, returned, pods, metrics, daemon, cycles, limited_containers,
                   deletions, deleted_total, limits_gauge>>

Deletion(ok) ==
    [pos       |-> pos,
     name      |-> EntryContainer.pod_metadata.name,
     namespace |-> EntryContainer.pod_metadata.namespace,
     owner     |-> controller_string(EntryContainer),
     ok        |-> ok]

\* delete_container deletes the pod; the counter is incremented and run
\* appends the controller
DeletePod ==
    /\ Submitted
    /\ ~StatusUnsupported(controller(EntryContainer).kind)
    /\ \E status \in Statuses :
        /\ ~Unready(status)
        /\ status_reads' = Append(status_reads, StatusRead("ok", status))
    /\ deletions' = Append(deletions, Deletion(TRUE))
    /\ deleted_total' =
            Inc(deleted_total, <<EntryContainer.pod_metadata.namespace,
                                 controller_string(EntryContainer)>>)
    /\ updated_controllers' =
            Append(updated_controllers, controller_string(EntryContainer))
    /\ NextEntry
    /\ UNCHANGED <<quantity, returned, pods, metrics, daemon, cycles, limited_containers,
                   limits_gauge>>

\* v1.delete_namespaced_pod raises: the counter is not incremented
DeletePodFails ==
    /\ Submitted
    /\ ~StatusUnsupported(controller(EntryContainer).kind)
    /\ \E status \in Statuses :
        /\ ~Unready(status)
        /\ status_reads' = Append(status_reads, StatusRead("ok", status))
    /\ deletions' = Append(deletions, Deletion(FALSE))
    /\ Abort("delete_namespaced_pod")
    /\ UNCHANGED <<quantity, returned, pods, metrics, daemon, cycles, limited_containers,
                   updated_controllers, pos, deleted_total, limits_gauge>>

\* the loops of run are exhausted: run returns
RunReturns ==
    /\ pc = "loop"
    /\ pos > Len(Entries(metrics, 1))
    /\ pc' = "finished"
    /\ UNCHANGED <<quantity, returned, pods, metrics, daemon, cycles, limited_containers,
                   updated_controllers, pos, error, status_reads, deletions,
                   deleted_total, limits_gauge, exceptions_count>>

\* a main that leaves its loop in either mode
BreakAlways ==
    /\ pc = "finished"
    /\ pc' = "exit"
    /\ UNCHANGED <<quantity, returned, pods, metrics, daemon, cycles, limited_containers,
                   updated_controllers, pos, error, status_reads, deletions,
                   deleted_total, limits_gauge, exceptions_count>>

\* main: if not args.daemon: break
Break ==
    /\ pc = "finished"
    /\ ~daemon
    /\ pc' = "exit"
    /\ UNCHANGED <<quantity, returned, pods, metrics, daemon, cycles, limited_containers,
                   updated_controllers, pos, error, status_reads, deletions,
                   deleted_total, limits_gauge, exceptions_count>>

\* main: time.sleep(args.delay)
Sleep ==
    /\ pc = "finished"
    /\ daemon
    /\ pc' = "sleep"
    /\ UNCHANGED <<quantity, returned, pods, metrics, daemon, cycles, limited_containers,
                   updated_controllers, pos, error, status_reads, deletions,
                   deleted_total, limits_gauge, exceptions_count>>

\* main: the sleep ends and the while loop starts over
Wake ==
    /\ pc = "sleep"
    /\ cycles < MaxCycles
    /\ pc' = "start"
    /\ UNCHANGED <<quantity, returned, pods, metrics, daemon, cycles, limited_containers,
                   updated_controllers, pos, error, status_reads, deletions,
                   deleted_total, limits_gauge, exceptions_count>>

\* single-shot mode
Next ==
    \/ ListPodsFails
    \/ BuildIndexRaises
    \/ ListMetricsFails
    \/ BuildIndex
    \/ UsageRaises
    \/ NotLimited
    \/ WithinLimit
    \/ NoController
    \/ SkipUpdated
    \/ UnsupportedKind
    \/ StatusReadFails
    \/ DenyUnready
    \/ DeletePod
    \/ DeletePodFails
    \/ RunReturns
    \/ Break

Spec == Init /\ [][Next]_vars

\* daemon mode, over a smaller set of clusters
InitDaemon ==
    /\ pods \in DaemonPodLists
    /\ metrics \in DaemonMetricLists(pods)
    /\ daemon = TRUE
    /\ pc = "start"
    /\ cycles = 0
    /\ limited_containers = EmptyMap
    /\ updated_controllers = <<>>
    /\ pos = 1
    /\ error = ""
    /\ status_reads = <<>>
    /\ deletions = <<>>
    /\ deleted_total = EmptyMap
    /\ limits_gauge = EmptyMap
    /\ exceptions_count = 0
    /\ quantity = <<>>
    /\ returned = None

NextDaemon ==
    \/ ListPodsFails
    \/ ListMetricsFails
    \/ BuildIndex
    \/ NotLimited
    \/ WithinLimit
    \/ NoController
    \/ SkipUpdated
    \/ StatusReadFails
    \/ DenyUnready
    \/ DeletePod
    \/ DeletePodFails
    \/ RunReturns
    \/ Sleep
    \/ Wake

SpecDaemon == InitDaemon /\ [][NextDaemon]_vars

\* main in either mode.  Its statements run one after the other in a single
\* thread, and time.sleep returns: a step that can be taken is taken.
InitMain ==
    /\ pods \in DaemonPodLists
    /\ metrics \in DaemonMetricLists(pods)
    /\ daemon \in BOOLEAN
    /\ pc = "start"
    /\ cycles = 0
    /\ limited_containers = EmptyMap
    /\ updated_controllers = <<>>
    /\ pos = 1
    /\ error = ""
    /\ status_reads = <<>>
    /\ deletions = <<>>
    /\ deleted_total = EmptyMap
    /\ limits_gauge = EmptyMap
    /\ exceptions_count = 0
    /\ quantity = <<>>
    /\ returned = None

NextMain ==
    \/ ListPodsFails
    \/ ListMetricsFails
    \/ BuildIndex
    \/ NotLimited
    \/ WithinLimit
    \/ NoController
    \/ SkipUpdated
    \/ StatusReadFails
    \/ DenyUnready
    \/ DeletePod
    \/ DeletePodFails
    \/ RunReturns
    \/ Break
    \/ Sleep
    \/ Wake

SpecMain == InitMain /\ [][NextMain]_vars /\ WF_vars(NextMain)

\* ---------------------------------------------------------------- properties

\* the usage entries of the snapshot, in order
UsageEntries == Entries(metrics, 1)

EntryIds == 1..Len(UsageEntries)

\* the pod of the listing an entry names
Named(k, p) ==
    /\ pods[p].metadata.namespace = UsageEntries[k].metadata.namespace
    /\ pods[p].metadata.name = UsageEntries[k].metadata.name

\* the limit annotations of pod p that apply to a container name
HasScoped(p, cname) ==
    (annotation_string \o "/" \o cname) \in DOMAIN pods[p].metadata.annotations
HasBase(p) == annotation_string \in DOMAIN pods[p].metadata.annotations
ScopedValue(p, cname) ==
    pods[p].metadata.annotations[annotation_string \o "/" \o cname]
BaseValue(p) == pods[p].metadata.annotations[annotation_string]

\* the bytes of the limit that applies: container-scoped, else pod-wide,
\* else none
ResolvedLimit(p, cname) ==
    IF HasScoped(p, cname) THEN metric_to_bytes(ScopedValue(p, cname))
    ELSE IF HasBase(p) THEN metric_to_bytes(BaseValue(p))
    ELSE None

\* entry k reports, for a monitored container of pod p, usage above its limit
OverItsLimit(k, p) ==
    /\ Named(k, p)
    /\ \E c \in 1..Len(pods[p].spec.containers) :
        /\ pods[p].spec.containers[c].name = UsageEntries[k].container_metric.name
        /\ HasScoped(p, pods[p].spec.containers[c].name) \/ HasBase(p)
    /\ ResolvedLimit(p, UsageEntries[k].container_metric.name) >= 0
    /\ metric_to_bytes(UsageEntries[k].container_metric.usage.memory)
         > ResolvedLimit(p, UsageEntries[k].container_metric.name)

\* the owner references of pod p flagged as controller
Controllers(p) ==
    {o \in 1..Len(pods[p].metadata.owner_references) :
        pods[p].metadata.owner_references[o].controller}

\* pods p and q have the same owning controller: same namespace, kind, name
SameController(p, q) ==
    /\ Controllers(p) # {} /\ Controllers(q) # {}
    /\ pods[p].metadata.namespace = pods[q].metadata.namespace
    /\ \E o \in Controllers(p), r \in Controllers(q) :
        /\ \A l \in Controllers(p) : o <= l
        /\ \A l \in Controllers(q) : r <= l
        /\ pods[p].metadata.owner_references[o].kind
             = pods[q].metadata.owner_references[r].kind
        /\ pods[p].metadata.owner_references[o].name
             = pods[q].metadata.owner_references[r].name

DeletionIds == 1..Len(deletions)
ReadIds == 1..Len(status_reads)

\* the deletion requests of this cycle for the pods of p's controller
DeletionsFor(p) ==
    {d \in DeletionIds :
        \E q \in 1..Len(pods) :
            /\ SameController(p, q)
            /\ deletions[d].namespace = pods[q].metadata.namespace
            /\ deletions[d].name = pods[q].metadata.name}

\* the exception that ended the cycle was raised while entry k was handled
AbortedAt(k) ==
    /\ pc \in {"finished", "exit", "sleep"}
    /\ pos = k
    /\ error \in {"metric_to_bytes", "controller_string", "controller.status",
                  "read_status", "delete_namespaced_pod"}

\* the cycle is over and every entry of the snapshot was handled
AllHandled == pc \in {"finished", "exit", "sleep"} /\ error = "" /\ pos > Len(UsageEntries)

\* C1: within one cycle at most one pod deletion request is issued per
\* owning controller (namespace, kind and name), whatever the number of
\* over-limit containers and the order of the usage entries.
C1_AtMostOnePerController ==
    \A d1, d2 \in DeletionIds :
        (/\ deletions[d1].namespace = deletions[d2].namespace
         /\ deletions[d1].owner = deletions[d2].owner) => d1 = d2

\* C1 witness: every entry was handled, two pods of one controller were
\* both over their limits, and one request was issued.
C1_Witness ==
    /\ AllHandled
    /\ Len(deletions) = 1
    /\ \E k1, k2 \in EntryIds :
        /\ OverItsLimit(k1, 1) /\ OverItsLimit(k2, 2)
        /\ SameController(1, 2)

\* the ready count of a status, an absent one read as 0
ReadyCount(status) ==
    IF status.ready_replicas = None THEN 0 ELSE status.ready_replicas

\* the status read that belongs to deletion request d: the one read while
\* the same entry was handled
ReadOf(d) ==
    {r \in ReadIds :
        /\ status_reads[r].pos = deletions[d].pos
        /\ status_reads[r].result = "ok"
        /\ status_reads[r].namespace = deletions[d].namespace
        /\ status_reads[r].kind \o "/" \o status_reads[r].name = deletions[d].owner}

\* C2: a deletion request is issued only after a status read of the pod's
\* controller in the same cycle that had ready >= desired; a controller
\* with desired 3 and ready 2 never has a pod deleted.
C2_ReadinessGate ==
    \A d \in DeletionIds :
        /\ ReadOf(d) # {}
        /\ \A r \in ReadOf(d) :
            /\ status_reads[r].status.replicas # None =>
                   ReadyCount(status_reads[r].status) >= status_reads[r].status.replicas
            /\ ~(status_reads[r].status.replicas = 3
                 /\ status_reads[r].status.ready_replicas = 2)

\* C2 witness: a pod was deleted after a read of desired 3, ready 3.
C2_Witness ==
    \E d \in DeletionIds : \E r \in ReadOf(d) :
        status_reads[r].status = [replicas |-> 3, ready_replicas |-> 3]

\* a deletion request was issued while the entry of read r was handled
DeletedAfter(r) ==
    \E d \in DeletionIds : deletions[d].pos = status_reads[r].pos

Ready3DesiredAbsent == [replicas |-> None, ready_replicas |-> 3]
Ready3Desired3 == [replicas |-> 3, ready_replicas |-> 3]

\* C3 as stated: an eligible over-limit container whose controller reports
\* ready 3 and no desired count has its pod deleted.
C3_AbsentDesiredApproved ==
    \A r \in ReadIds :
        (status_reads[r].result = "ok" /\ status_reads[r].status = Ready3DesiredAbsent)
            => DeletedAfter(r)

\* C3 amended: with ready 3 the pod is deleted when the desired count is 3;
\* when the desired count is absent it counts as 1000 and the pod is not
\* deleted.
C3_AbsentDesiredDenied ==
    \A r \in ReadIds :
        /\ (status_reads[r].result = "ok" /\ status_reads[r].status = Ready3DesiredAbsent)
            => ~DeletedAfter(r)
        /\ (status_reads[r].result = "ok" /\ status_reads[r].status = Ready3Desired3)
            => DeletedAfter(r)

\* C3 witness: the status of an eligible candidate's controller was read as
\* ready 3, desired absent, and the entry was left behind without a deletion.
C3_Witness ==
    \E r \in ReadIds :
        /\ status_reads[r].result = "ok"
        /\ status_reads[r].status = Ready3DesiredAbsent
        /\ pos > status_reads[r].pos
        /\ deletions = <<>>

\* C4: two containers in different pods of one controller, both over their
\* limits, the controller's status read with ready = desired: exactly one
\* deletion request is issued in the cycle (stated of the cycles that run
\* to their end without an exception).
C4_ExactlyOneOfTwo ==
    (/\ AllHandled
     /\ SameController(1, 2)
     /\ \E k1, k2 \in EntryIds : OverItsLimit(k1, 1) /\ OverItsLimit(k2, 2)
     /\ \E r \in ReadIds :
         /\ status_reads[r].result = "ok"
         /\ status_reads[r].status.replicas # None
         /\ status_reads[r].status.ready_replicas = status_reads[r].status.replicas)
        => Cardinality(DeletionsFor(1)) = 1

\* a container of pod p that carries neither annotation
Unannotated(p, cname) == ~HasScoped(p, cname) /\ ~HasBase(p)

\* C5: a container with neither the container-scoped nor the pod-wide
\* annotation is never in the monitored index, and no pod is deleted on its
\* account, whatever usage is reported for it.
C5_UnmonitoredNeverEvicted ==
    \A p \in 1..Len(pods) : \A c \in 1..Len(pods[p].spec.containers) :
        Unannotated(p, pods[p].spec.containers[c].name) =>
            /\ gen_key(pods[p].metadata.namespace, pods[p].metadata.name,
                       pods[p].spec.containers[c].name)
                 \notin DOMAIN limited_containers
            /\ \A d \in DeletionIds :
                ~(/\ Named(deletions[d].pos, p)
                  /\ UsageEntries[deletions[d].pos].container_metric.name
                       = pods[p].spec.containers[c].name)

\* C5 witness: the entry of an unannotated container reporting 3Ki was
\* handled, and the cycle went on.
C5_Witness ==
    /\ pc = "loop"
    /\ \E k \in EntryIds : \E p \in 1..Len(pods) :
        /\ k < pos
        /\ Named(k, p)
        /\ Unannotated(p, UsageEntries[k].container_metric.name)
        /\ metric_to_bytes(UsageEntries[k].container_metric.usage.memory) = 3072

\* C6: a deletion request is issued only while an entry is handled that
\* reports, for a monitored container, usage strictly above its limit; so
\* a cycle over a snapshot with no usage above the limits deletes nothing,
\* however many cycles came before.
C6_OnlyStrictlyOver ==
    \A d \in DeletionIds :
        \E p \in 1..Len(pods) :
            /\ OverItsLimit(deletions[d].pos, p)
            /\ deletions[d].namespace = pods[p].metadata.namespace
            /\ deletions[d].name = pods[p].metadata.name

\* C6 witness: the second cycle in a row has handled every entry, one of
\* them reporting usage equal to the limit of a monitored container of a pod
\* with a controller, and no deletion was requested.
C6_Witness ==
    /\ AllHandled
    /\ cycles = 2
    /\ deletions = <<>>
    /\ \E k \in EntryIds : \E p \in 1..Len(pods) :
        /\ Named(k, p)
        /\ Controllers(p) # {}
        /\ ResolvedLimit(p, UsageEntries[k].container_metric.name) = 2048
        /\ metric_to_bytes(UsageEntries[k].container_metric.usage.memory) = 2048

\* C7: the container-scoped annotation wins over the pod-wide one, which
\* wins over no limit: with both present (1Ki for c1, 2Ki pod-wide) c1 is
\* monitored at 1024 and every other container at 2048; with neither the
\* container is not monitored.
C7_LimitPrecedence ==
    pc = "loop" =>
        \A p \in 1..Len(pods) : \A c \in 1..Len(pods[p].spec.containers) :
            LET cname == pods[p].spec.containers[c].name
                key == gen_key(pods[p].metadata.namespace, pods[p].metadata.name, cname)
            IN  /\ HasScoped(p, cname) =>
                    /\ key \in DOMAIN limited_containers
                    /\ memory_limit(limited_containers[key])
                         = metric_to_bytes(ScopedValue(p, cname))
                /\ (~HasScoped(p, cname) /\ HasBase(p)) =>
                    /\ key \in DOMAIN limited_containers
                    /\ memory_limit(limited_containers[key])
                         = metric_to_bytes(BaseValue(p))
                /\ (~HasScoped(p, cname) /\ ~HasBase(p)) =>
                    key \notin DOMAIN limited_containers
                /\ (HasScoped(p, "c1") /\ HasBase(p)
                    /\ ScopedValue(p, "c1") = Limit1Ki /\ BaseValue(p) = Limit2Ki) =>
                    memory_limit(limited_containers[key])
                        = IF cname = "c1" THEN 1024 ELSE 2048

\* C7 witness: the index was built over a pod carrying both annotations.
C7_Witness ==
    /\ pc = "loop"
    /\ \E p \in 1..Len(pods) :
        /\ HasScoped(p, "c1") /\ HasBase(p)
        /\ gen_key(pods[p].metadata.namespace, pods[p].metadata.name, "c2")
             \in DOMAIN limited_containers

\* C8: an over-limit monitored container of a pod without a controller is
\* skipped: no deletion, no exception out of the cycle, the later entries
\* are still handled.
C8_NoControllerSkipped ==
    \A k \in EntryIds : \A p \in 1..Len(pods) :
        (OverItsLimit(k, p) /\ Controllers(p) = {}) =>
            /\ ~AbortedAt(k)
            /\ \A d \in DeletionIds : deletions[d].pos # k

\* the kinds a status can be fetched for
KnownKind(kind) ==
    kind \in {"Deployment", "StatefulSet", "ReplicationController", "ReplicaSet"}

\* C9: an over-limit candidate whose controller's kind has no status
\* lookup is denied, and the cycle goes on to the next candidate.
C9_UnsupportedKindDenied ==
    \A k \in EntryIds : \A p \in 1..Len(pods) :
        (/\ OverItsLimit(k, p)
         /\ \E o \in Controllers(p) :
              /\ \A l \in Controllers(p) : o <= l
              /\ ~KnownKind(pods[p].metadata.owner_references[o].kind)) =>
            /\ ~AbortedAt(k)
            /\ \A d \in DeletionIds : deletions[d].pos # k

\* C10: a failed deletion request abandons that candidate only: the cycle
\* does not end there, the later entries are still handled.
C10_FailedDeletionContinues ==
    \A d \in DeletionIds : ~deletions[d].ok => ~AbortedAt(deletions[d].pos)

\* a quantity string that is no quantity at all: it does not start with a
\* digit
Malformed(s) == s = <<>> \/ ~IsDigit(s[1])

\* C11: a usage entry whose usage string cannot be parsed is skipped: the
\* cycle does not end at that entry, the later entries are still handled.
C11_MalformedUsageSkipped ==
    \A k \in EntryIds :
        Malformed(UsageEntries[k].container_metric.usage.memory) => ~AbortedAt(k)

\* pod p carries a limit annotation that applies to one of its containers
\* and is malformed
MalformedLimit(p) ==
    \E c \in 1..Len(pods[p].spec.containers) :
        \/ /\ HasScoped(p, pods[p].spec.containers[c].name)
           /\ Malformed(ScopedValue(p, pods[p].spec.containers[c].name))
        \/ /\ ~HasScoped(p, pods[p].spec.containers[c].name)
           /\ HasBase(p)
           /\ Malformed(BaseValue(p))

\* C12: a container whose limit annotation cannot be parsed is left out of
\* the monitored set, and the cycle is not ended by it.
C12_MalformedLimitExcluded ==
    (cycles > 0 /\ \E p \in 1..Len(pods) : MalformedLimit(p)) =>
        ~(pc \in {"finished", "exit", "sleep"} /\ error = "memory_limit")

\* ------------------------------------------- metric_to_bytes on its own

\* amounts as written, with the number they denote as num / den
NumberTexts ==
    { [text |-> <<"0">>,           num |-> 0,   den |-> 1],
      [text |-> <<"1">>,           num |-> 1,   den |-> 1],
      [text |-> <<"2">>,           num |-> 2,   den |-> 1],
      [text |-> <<"1", "2">>,      num |-> 12,  den |-> 1],
      [text |-> <<"5", "1", "2">>, num |-> 512, den |-> 1],
      [text |-> <<"2", ".">>,      num |-> 2,   den |-> 1],
      [text |-> <<"0", ".", "5">>, num |-> 5,   den |-> 10],
      [text |-> <<"1", ".", "5">>, num |-> 15,  den |-> 10] }

\* the suffixes of the quantity notation, with the factor each stands for
KnownSuffixes ==
    { [text |-> <<>>,         mult |-> 1],
      [text |-> <<"k">>,      mult |-> 1000],
      [text |-> <<"K">>,      mult |-> 1000],
      [text |-> <<"M">>,      mult |-> 1000000],
      [text |-> <<"m">>,      mult |-> 1000000],
      [text |-> <<"G">>,      mult |-> 1000000000],
      [text |-> <<"g">>,      mult |-> 1000000000],
      [text |-> <<"K", "i">>, mult |-> 1024],
      [text |-> <<"k", "i">>, mult |-> 1024],
      [text |-> <<"K", "I">>, mult |-> 1024],
      [text |-> <<"M", "i">>, mult |-> 1048576],
      [text |-> <<"m", "i">>, mult |-> 1048576],
      [text |-> <<"G", "i">>, mult |-> 1073741824],
      [text |-> <<"g", "I">>, mult |-> 1073741824] }

\* suffixes the notation does not have
UnknownSuffixes ==
    { <<"B">>, <<"b">>, <<"i">>, <<"k", "b">>, <<"K", "k">>, <<"M", "i", "b">> }

\* the strings metric_to_bytes is called on; of the quantities, those whose
\* value fits the integers of the model
ParseInputs ==
    { n.text \o u.text :
        <<n, u>> \in { z \in NumberTexts \X KnownSuffixes :
                        z[1].num <= 2147483647 \div z[2].mult } }
    \cup { n.text \o u : n \in NumberTexts, u \in UnknownSuffixes }
    \cup { <<>>, <<"M", "i">>, <<".", "5">>, <<"_", "1">> }

InitParse ==
    /\ pods = <<>>
    /\ metrics = <<>>
    /\ daemon = FALSE
    /\ pc = "parse"
    /\ cycles = 0
    /\ limited_containers = EmptyMap
    /\ updated_controllers = <<>>
    /\ pos = 1
    /\ error = ""
    /\ status_reads = <<>>
    /\ deletions = <<>>
    /\ deleted_total = EmptyMap
    /\ limits_gauge = EmptyMap
    /\ exceptions_count = 0
    /\ quantity \in ParseInputs
    /\ returned = None

\* one call of metric_to_bytes: returned is its value, Raised if it raised
Parse ==
    /\ pc = "parse"
    /\ returned' = metric_to_bytes(quantity)
    /\ pc' = "parsed"
    /\ UNCHANGED <<quantity, pods, metrics, daemon, cycles, limited_containers,
                   updated_controllers, pos, error, status_reads, deletions,
                   deleted_total, limits_gauge, exceptions_count>>

NextParse == Parse

SpecParse == InitParse /\ [][NextParse]_vars

\* C13: a quantity with a suffix the notation does not have is rejected,
\* never answered with a number (zero in particular).
C13_UnknownSuffixRejected ==
    \A n \in NumberTexts, u \in UnknownSuffixes :
        (pc = "parsed" /\ quantity = n.text \o u) => returned = Raised

\* C14: the value of a quantity is its amount times the factor of its
\* suffix, truncated to an integer, for integer and for decimal amounts:
\* 1Ki is 1024, 2G is 2000000000, 0.5Mi is 524288.
C14_AmountTimesMultiplier ==
    \A n \in NumberTexts, u \in KnownSuffixes :
        (pc = "parsed" /\ quantity = n.text \o u.text) =>
            returned = (n.num * u.mult) \div n.den

\* --------------------------------------------------------------- metrics

\* the containers of the listing, in namespace ns, whose limit resolved
MonitoredIn(ns) ==
    Cardinality({ pc_ \in { <<p, c>> : p \in 1..Len(pods), c \in 1..2 } :
        /\ pods[pc_[1]].metadata.namespace = ns
        /\ pc_[2] <= Len(pods[pc_[1]].spec.containers)
        /\ ResolvedLimit(pc_[1], pods[pc_[1]].spec.containers[pc_[2]].name) >= 0 })

\* what the gauge shows for a namespace: a label set never set shows nothing
GaugeOf(ns) == IF ns \in DOMAIN limits_gauge THEN limits_gauge[ns] ELSE 0

\* the cycle under way, or just over, got past the building of the index
IndexBuilt ==
    /\ cycles > 0
    /\ pc \in {"loop", "finished", "sleep", "exit"}
    /\ error \notin {"get_pods", "memory_limit"}

\* C15: after every cycle that builds its index, the gauge of every
\* namespace equals the number of containers of that cycle's pod listing
\* with a resolved limit in that namespace, a namespace that had some in an
\* earlier cycle and has none now included.
C15_GaugeIsCurrentCount ==
    IndexBuilt => \A ns \in Namespaces : GaugeOf(ns) = MonitoredIn(ns)

\* what a counter shows for a label set
CountOf(counter, labels) == IF labels \in DOMAIN counter THEN counter[labels] ELSE 0

\* the step records a deletion request that succeeded
DeletedNow ==
    /\ Len(deletions') = Len(deletions) + 1
    /\ deletions'[Len(deletions')].ok

\* C16: the deleted-pods counter starts empty and goes up by exactly one,
\* under the labels (namespace, owner), with every pod deletion that
\* succeeds, and by nothing with any other step (a denied eviction, a
\* failed deletion request): its total is the number of successful
\* deletions since the start.
C16_CounterCountsDeletions ==
    /\ deleted_total = EmptyMap
    /\ [][\A l \in DOMAIN deleted_total \cup DOMAIN deleted_total' :
            CountOf(deleted_total', l) =
                CountOf(deleted_total, l) +
                (IF /\ DeletedNow
                    /\ l = <<deletions'[Len(deletions')].namespace,
                             deletions'[Len(deletions')].owner>>
                 THEN 1 ELSE 0)]_vars

\* two cycles have each deleted a pod of the same controller
C16_Witness ==
    /\ cycles = 2
    /\ \E d \in DeletionIds :
        /\ deletions[d].ok
        /\ CountOf(deleted_total, <<deletions[d].namespace, deletions[d].owner>>) = 2

\* ------------------------------------------------------------ scheduling

\* the step ends a cycle by an exception
CycleFails == pc # "finished" /\ pc' = "finished" /\ error' # ""

\* the cycle before the one that starts has returned or failed
PreviousOver == cycles = 0 \/ error # "" \/ pos > Len(UsageEntries)

\* C17: in daemon mode a failure of a cycle is caught and counted, the
\* process does not exit, and after every cycle the next one is eventually
\* started: cycles goes up one at a time and reaches MaxCycles; a cycle
\* starts only after the previous one has returned or failed.  In
\* single-shot mode exactly one cycle is run, then the process exits.
C17_Scheduling ==
    /\ [][CycleFails => exceptions_count' = exceptions_count + 1]_vars
    /\ [](daemon => pc # "exit")
    /\ [][cycles' # cycles => (cycles' = cycles + 1 /\ PreviousOver)]_vars
    /\ [](~daemon => cycles <= 1)
    /\ <>(IF daemon THEN cycles = MaxCycles ELSE pc = "exit" /\ cycles = 1)

\* the daemon is in the cycle that follows a failed one
C17_Witness ==
    /\ daemon
    /\ cycles = 2
    /\ exceptions_count >= 1
    /\ pc = "loop"

\* ---------------------------------------------------- used controllers

\* the owner reference of pod p that is its controller
FirstController(p) ==
    pods[p].metadata.owner_references[
        CHOOSE o \in Controllers(p) : \A l \in Controllers(p) : o <= l]

\* entry k is the first over-limit entry of this cycle for q's controller
FirstOfItsController(k, q) ==
    \A j \in EntryIds : \A p \in 1..Len(pods) :
        (j < k /\ OverItsLimit(j, p)) => ~SameController(p, q)

\* C18: a controller is identified by kind, name and namespace: when a pod
\* of controller K/N in one namespace has been deleted, the first
\* over-limit candidate of the controller K/N of another namespace is not
\* blocked in the same cycle, its controller's status is fetched.
C18_NamespaceScoped ==
    \A k \in EntryIds : \A q \in 1..Len(pods) :
        (/\ pos > k
         /\ OverItsLimit(k, q)
         /\ Controllers(q) # {}
         /\ FirstOfItsController(k, q)
         /\ \E d \in DeletionIds :
              /\ deletions[d].ok
              /\ deletions[d].pos < k
              /\ deletions[d].namespace # pods[q].metadata.namespace
              /\ deletions[d].owner =
                   FirstController(q).kind \o "/" \o FirstController(q).name)
        => \E r \in ReadIds : status_reads[r].pos = k

\* the candidate at entry j was submitted and denied: its controller's
\* status was read and no deletion was requested
DeniedAt(j) ==
    /\ \E r \in ReadIds : status_reads[r].pos = j /\ status_reads[r].result = "ok"
    /\ \A d \in DeletionIds : deletions[d].pos # j
    /\ pos > j

\* C19: a controller is in the used-controller set only when a deletion
\* was issued for it in this cycle; a denied candidate leaves the set as it
\* was, so a later over-limit candidate of the same controller still has
\* its controller's status fetched.
C19_UsedOnlyWhenDeleted ==
    /\ \A i \in 1..Len(updated_controllers) :
        \E d \in DeletionIds : deletions[d].owner = updated_controllers[i]
    /\ \A j, k \in EntryIds : \A p, q \in 1..Len(pods) :
        (/\ j < k /\ pos > k
         /\ OverItsLimit(j, p) /\ OverItsLimit(k, q)
         /\ SameController(p, q)
         /\ DeniedAt(j)
         /\ \A d \in DeletionIds : deletions[d].pos >= k)
        => \E r \in ReadIds : status_reads[r].pos = k

\* the replicas the controller is expected to have: the desired count it
\* reports, the sentinel only when it reports none
ExpectedCount(status) ==
    IF status.replicas = None THEN DefaultReplicas ELSE status.replicas

\* C20: a candidate whose controller's status was read is approved exactly
\* when ready >= expected, ready being 0 when absent and expected the
\* reported desired count, 0 included, or the sentinel when absent: a
\* controller with desired 0 and ready 0 is approved.
C20_ApprovedIffReady ==
    \A r \in ReadIds :
        status_reads[r].result = "ok" =>
            (DeletedAfter(r) <=>
                ReadyCount(status_reads[r].status) >= ExpectedCount(status_reads[r].status))

====
